---- MODULE Spec2Model ----
(***************************************************************************)
(* A model of the RAG system's locally implemented logic:                  *)
(*   - chunk_text / process_document  (src/src/document_processor.py)      *)
(*   - index_documents / get_index_stats (src/src/search_index.py)         *)
(*   - RAGPipeline                     (src/src/pipeline.py)               *)
(*   - AppConfig.validate              (src/src/config.py)                 *)
(*   - the batching and streaming loops (src/src/azure_openai.py)          *)
(* Text is a sequence of one-character strings.                            *)
(***************************************************************************)
EXTENDS Integers, Sequences, FiniteSets, TLC

VARIABLES
    pc,             \* position of the running call
    text,           \* chunk_text: the text argument
    chunk_size,     \* chunk_size argument of the running call
    chunk_overlap,  \* chunk_overlap argument of the running call
    chunks,         \* chunk_text: the returned list
    files,          \* process_document: the files handed to successive calls
    out,            \* process_document: the list returned by each call so far
    index,          \* Index Store: the documents held, one per id
    index_exists,   \* Index Store: the index has been created
    blobs,          \* Blob Store: the names of the blobs in the container
    op,             \* pipeline: the operation called last and its arguments
    loc,            \* pipeline: the local variables of the running operation
    outcome,        \* pipeline: how the last operation ended, and its value
    calls,          \* the external calls made by the last operation, in order
    ncalls,         \* the number of pipeline operations called so far
    prev,           \* the last complete ingest: its arguments and the index
                    \* it left, for as long as no other ingest has uploaded
    config,         \* the settings read from the environment: "" when unset
    missing         \* what RAGPipeline.__init__ got from config.validate()

chunkVars == <<text, chunks>>
docVars == <<files, out>>
storeVars == <<index, index_exists, blobs>>
pipeVars == <<index, index_exists, blobs, op, loc, outcome, calls, ncalls, prev,
              config, missing>>

vars == <<pc, text, chunk_size, chunk_overlap, chunks, files, out,
          index, index_exists, blobs, op, loc, outcome, calls, ncalls, prev,
          config, missing>>

(***************************************************************************)
(* Bounds of the model.                                                    *)
(***************************************************************************)
MaxLen == 6
MaxChunkSize == 3
MaxOverlap == 2
MaxPages == 2
MaxCalls == 2
MaxResults == 2
MaxStream == 2
MaxDistinctResults == 3
MaxBatches == 1
MaxRepeat == 3

Alphabet == {"a", ".", " ", "\n"}

(***************************************************************************)
(* Python string primitives.                                               *)
(***************************************************************************)
IsSpace(c) == c \in {" ", "\n", "\t", "\r"}

IsTerminal(c) == c \in {".", "!", "?"}

NL2 == <<"\n", "\n">>

RECURSIVE LStrip(_)
LStrip(s) ==
    IF s = <<>> THEN <<>>
    ELSE IF IsSpace(Head(s)) THEN LStrip(Tail(s)) ELSE s

RECURSIVE RStrip(_)
RStrip(s) ==
    IF s = <<>> THEN <<>>
    ELSE IF IsSpace(s[Len(s)]) THEN RStrip(SubSeq(s, 1, Len(s) - 1)) ELSE s

\* a strip that forgets the leading whitespace
StripRightOnly(s) == RStrip(s)

\* str.strip()
Strip(s) == RStrip(LStrip(s))

\* s[-k:] for k > 0
Suffix(s, k) ==
    IF k >= Len(s) THEN s ELSE SubSeq(s, Len(s) - k + 1, Len(s))

\* s[:k] for k >= 0
Prefix(s, k) ==
    IF k >= Len(s) THEN s ELSE SubSeq(s, 1, k)

\* text.split("\n\n"): cut at each leftmost non-overlapping "\n\n"
RECURSIVE SplitBlank(_)
SplitBlank(s) ==
    LET hits == {i \in 1..(Len(s) - 1) : s[i] = "\n" /\ s[i + 1] = "\n"}
    IN  IF hits = {} THEN <<s>>
        ELSE LET i == CHOOSE j \in hits : \A h \in hits : j <= h
             IN  <<SubSeq(s, 1, i - 1)>> \o SplitBlank(SubSeq(s, i + 2, Len(s)))

\* [p.strip() for p in paragraphs if p.strip()]
RECURSIVE StripAndDrop(_)
StripAndDrop(ps) ==
    IF ps = <<>> THEN <<>>
    ELSE LET p == Strip(Head(ps))
         IN  (IF p # <<>> THEN <<p>> ELSE <<>>) \o StripAndDrop(Tail(ps))

Paragraphs(t) == StripAndDrop(SplitBlank(t))

\* the end of the maximal whitespace run that starts at position i
RECURSIVE RunEnd(_, _)
RunEnd(s, i) ==
    IF i < Len(s) /\ IsSpace(s[i + 1]) THEN RunEnd(s, i + 1) ELSE i

\* re.split(r'(?<=[.!?])\s+', para)
RECURSIVE SplitSentences(_)
SplitSentences(s) ==
    LET hits == {i \in 2..Len(s) : IsTerminal(s[i - 1]) /\ IsSpace(s[i])}
    IN  IF hits = {} THEN <<s>>
        ELSE LET i == CHOOSE j \in hits : \A h \in hits : j <= h
                 e == RunEnd(s, i)
             IN  <<SubSeq(s, 1, i - 1)>> \o SplitSentences(SubSeq(s, e + 1, Len(s)))

\* a step 2 that cuts every paragraph into sentences, short ones too
RECURSIVE PiecesAlwaysCut(_, _)
PiecesAlwaysCut(paras, cs) ==
    IF paras = <<>> THEN <<>>
    ELSE SplitSentences(Head(paras)) \o PiecesAlwaysCut(Tail(paras), cs)

\* Step 2 of chunk_text: long paragraphs are cut into sentences
RECURSIVE Pieces(_, _)
Pieces(paras, cs) ==
    IF paras = <<>> THEN <<>>
    ELSE (IF Len(Head(paras)) > cs THEN SplitSentences(Head(paras))
          ELSE <<Head(paras)>>) \o Pieces(Tail(paras), cs)

\* a merge step that seeds the next buffer without the overlap
MergeStepNoOverlap(st, piece, cs, co) ==
    IF Len(st.current_chunk) + Len(piece) > cs /\ st.current_chunk # <<>>
    THEN [chunks |-> Append(st.chunks, Strip(st.current_chunk)),
          current_chunk |-> piece]
    ELSE [chunks |-> st.chunks,
          current_chunk |->
              IF st.current_chunk # <<>> THEN st.current_chunk \o NL2 \o piece
              ELSE piece]

\* a merge step whose size test forgets the length of the incoming piece
MergeStepIgnorePieceLen(st, piece, cs, co) ==
    IF Len(st.current_chunk) > cs /\ st.current_chunk # <<>>
    THEN [chunks |-> Append(st.chunks, Strip(st.current_chunk)),
          current_chunk |->
              IF co > 0 THEN Suffix(st.current_chunk, co) \o NL2 \o piece
              ELSE piece]
    ELSE [chunks |-> st.chunks,
          current_chunk |->
              IF st.current_chunk # <<>> THEN st.current_chunk \o NL2 \o piece
              ELSE piece]

\* a merge step that leaves out a piece equal to the text already buffered
MergeStepSkipsRepeat(st, piece, cs, co) ==
    IF st.current_chunk = piece THEN st
    ELSE IF Len(st.current_chunk) + Len(piece) > cs /\ st.current_chunk # <<>>
    THEN [chunks |-> Append(st.chunks, Strip(st.current_chunk)),
          current_chunk |->
              IF co > 0 THEN Suffix(st.current_chunk, co) \o NL2 \o piece
              ELSE piece]
    ELSE [chunks |-> st.chunks,
          current_chunk |->
              IF st.current_chunk # <<>> THEN st.current_chunk \o NL2 \o piece
              ELSE piece]

\* a merge step whose size test closes the buffer even when it is empty
MergeStepFlushEmpty(st, piece, cs, co) ==
    IF Len(st.current_chunk) + Len(piece) > cs
    THEN [chunks |-> Append(st.chunks, Strip(st.current_chunk)),
          current_chunk |->
              IF co > 0 THEN Suffix(st.current_chunk, co) \o NL2 \o piece
              ELSE piece]
    ELSE [chunks |-> st.chunks,
          current_chunk |->
              IF st.current_chunk # <<>> THEN st.current_chunk \o NL2 \o piece
              ELSE piece]

\* One iteration of the merge loop; st = [chunks, current_chunk]
MergeStep(st, piece, cs, co) ==
    IF Len(st.current_chunk) + Len(piece) > cs /\ st.current_chunk # <<>>
    THEN [chunks |-> Append(st.chunks, Strip(st.current_chunk)),
          current_chunk |->
              IF co > 0 THEN Suffix(st.current_chunk, co) \o NL2 \o piece
              ELSE piece]
    ELSE [chunks |-> st.chunks,
          current_chunk |->
              IF st.current_chunk # <<>> THEN st.current_chunk \o NL2 \o piece
              ELSE piece]

RECURSIVE MergeLoop(_, _, _, _)
MergeLoop(st, pieces, cs, co) ==
    IF pieces = <<>> THEN st
    ELSE MergeLoop(MergeStep(st, Head(pieces), cs, co), Tail(pieces), cs, co)

\* a return that forgets the buffer left after the loop
LastChunkForgotten(st) == st.chunks

\* "Don't forget the last chunk"
LastChunk(st) ==
    IF Strip(st.current_chunk) # <<>>
    THEN Append(st.chunks, Strip(st.current_chunk))
    ELSE st.chunks

\* a chunker with a short-text fast path placed before the blank test
chunk_text_fastpath(t, cs, co) ==
    IF Len(t) <= cs THEN <<Strip(t)>>
    ELSE IF t = <<>> \/ Strip(t) = <<>> THEN <<>>
    ELSE LastChunk(MergeLoop([chunks |-> <<>>, current_chunk |-> <<>>],
                             Pieces(Paragraphs(t), cs), cs, co))

chunk_text(t, cs, co) ==
    IF t = <<>> \/ Strip(t) = <<>> THEN <<>>
    ELSE LastChunk(MergeLoop([chunks |-> <<>>, current_chunk |-> <<>>],
                             Pieces(Paragraphs(t), cs), cs, co))

(***************************************************************************)
(* The pipeline's state outside any operation.                             *)
(***************************************************************************)
\* AppConfig: the five settings validate() looks at, "" when the environment
\* does not set them
Configs ==
    [openai_endpoint : {"", "set"}, openai_key : {"", "set"},
     search_endpoint : {"", "set"}, search_key : {"", "set"},
     storage_connection_string : {"", "set"}]

FullConfig ==
    [openai_endpoint |-> "set", openai_key |-> "set",
     search_endpoint |-> "set", search_key |-> "set",
     storage_connection_string |-> "set"]

validate_no_storage(cfg) ==
    (IF cfg.openai_endpoint = "" THEN <<"AZURE_OPENAI_ENDPOINT">> ELSE <<>>)
    \o (IF cfg.openai_key = "" THEN <<"AZURE_OPENAI_KEY">> ELSE <<>>)
    \o (IF cfg.search_endpoint = "" THEN <<"AZURE_SEARCH_ENDPOINT">> ELSE <<>>)
    \o (IF cfg.search_key = "" THEN <<"AZURE_SEARCH_KEY">> ELSE <<>>)

\* a validate whose second test looks at the endpoint again
validate_endpoint_twice(cfg) ==
    (IF cfg.openai_endpoint = "" THEN <<"AZURE_OPENAI_ENDPOINT">> ELSE <<>>)
    \o (IF cfg.openai_endpoint = "" THEN <<"AZURE_OPENAI_KEY">> ELSE <<>>)
    \o (IF cfg.search_endpoint = "" THEN <<"AZURE_SEARCH_ENDPOINT">> ELSE <<>>)
    \o (IF cfg.search_key = "" THEN <<"AZURE_SEARCH_KEY">> ELSE <<>>)
    \o (IF cfg.storage_connection_string = ""
        THEN <<"AZURE_STORAGE_CONNECTION_STRING">> ELSE <<>>)

\* AppConfig.validate
validate(cfg) ==
    (IF cfg.openai_endpoint = "" THEN <<"AZURE_OPENAI_ENDPOINT">> ELSE <<>>)
    \o (IF cfg.openai_key = "" THEN <<"AZURE_OPENAI_KEY">> ELSE <<>>)
    \o (IF cfg.search_endpoint = "" THEN <<"AZURE_SEARCH_ENDPOINT">> ELSE <<>>)
    \o (IF cfg.search_key = "" THEN <<"AZURE_SEARCH_KEY">> ELSE <<>>)
    \o (IF cfg.storage_connection_string = ""
        THEN <<"AZURE_STORAGE_CONNECTION_STRING">> ELSE <<>>)

\* a client built from an empty endpoint or key cannot be answered by its
\* service: these say which clients can
OpenAIReady == config.openai_endpoint # "" /\ config.openai_key # ""

SearchReady == config.search_endpoint # "" /\ config.search_key # ""

StorageReady == config.storage_connection_string # ""

NoSource == [is_dir |-> FALSE, entries |-> {}]

NoOp ==
    [name |-> "none", source |-> NoSource, upload_to_blob |-> FALSE,
     params |-> <<0, 0>>, question |-> "", top_k |-> <<>>]

NoLocals ==
    [todo |-> {}, chunks |-> <<>>, embeddings |-> <<>>, i |-> 0,
     documents |-> <<>>, total_uploaded |-> 0, k |-> 0,
     query_embedding |-> <<>>, results |-> <<>>,
     context |-> <<>>, arrived |-> <<>>, yielded |-> <<>>]

NoOutcome == [op |-> "none", status |-> "none", value |-> <<>>]

PipelineUnused ==
    /\ index = {}
    /\ index_exists = FALSE
    /\ blobs = {}
    /\ op = NoOp
    /\ loc = NoLocals
    /\ outcome = NoOutcome
    /\ calls = <<>>
    /\ ncalls = 0
    /\ prev = <<>>
    /\ config = FullConfig
    /\ missing = <<>>

(***************************************************************************)
(* Inputs of the chunker.                                                  *)
(***************************************************************************)
Texts == UNION {[1..n -> Alphabet] : n \in 0..MaxLen}

\* the docstring example of chunk_text
ExampleSize == 100

ExampleText ==
    <<"P", "a", "r", "a", " ", "o", "n", "e", ".", "\n", "\n",
      "P", "a", "r", "a", " ", "t", "w", "o", ".", "\n", "\n",
      "P", "a", "r", "a", " ", "t", "h", "r", "e", "e", ".">>

ChunkInputs ==
    (Texts \X (1..MaxChunkSize) \X (0..MaxOverlap))
        \cup {<<ExampleText, ExampleSize, 0>>}

Init ==
    /\ pc = "call"
    /\ \E in \in ChunkInputs :
          /\ text = in[1]
          /\ chunk_size = in[2]
          /\ chunk_overlap = in[3]
    /\ chunks = <<>>
    /\ files = <<>>
    /\ out = <<>>
    /\ PipelineUnused

ChunkText ==
    /\ pc = "call"
    /\ chunks' = chunk_text(text, chunk_size, chunk_overlap)
    /\ pc' = "done"
    /\ UNCHANGED <<text, chunk_size, chunk_overlap, docVars, pipeVars>>

Next == ChunkText

Spec == Init /\ [][Next]_vars

(***************************************************************************)
(* chunk_text called again and again, one loop iteration to a step.  The   *)
(* locals of a call are in loc, the list it returned is in chunks, and out *)
(* keeps every call made so far with its arguments and its result.         *)
(***************************************************************************)
RepeatTexts ==
    { <<" ">>,
      <<"a", "\n", "\n", "a">>,
      <<"a", ".", " ", "a", "\n", "\n", "a">> }

RepeatInputs == RepeatTexts \X {1, MaxChunkSize} \X {0, MaxOverlap}

Returns(result) ==
    /\ chunks' = result
    /\ out' = Append(out, [text |-> text', chunk_size |-> chunk_size',
                           chunk_overlap |-> chunk_overlap', result |-> result])
    /\ pc' = "idle"

InitLoop ==
    /\ pc = "idle"
    /\ text = <<>>
    /\ chunk_size = 1
    /\ chunk_overlap = 0
    /\ chunks = <<>>
    /\ files = <<>>
    /\ out = <<>>
    /\ PipelineUnused

loopFrame == <<files, index, index_exists, blobs, op, outcome, calls, ncalls,
               prev, config, missing>>

\* "if not text or not text.strip(): return []"
ChunkCallBlank ==
    /\ pc = "idle"
    /\ Len(out) < MaxRepeat
    /\ \E in \in RepeatInputs :
          /\ in[1] = <<>> \/ Strip(in[1]) = <<>>
          /\ text' = in[1]
          /\ chunk_size' = in[2]
          /\ chunk_overlap' = in[3]
    /\ Returns(<<>>)
    /\ UNCHANGED <<loc, loopFrame>>

\* a call whose list of chunks is the list the call before it returned
ChunkCallSharedList ==
    /\ pc = "idle"
    /\ Len(out) < MaxRepeat
    /\ \E in \in RepeatInputs :
          /\ ~(in[1] = <<>> \/ Strip(in[1]) = <<>>)
          /\ text' = in[1]
          /\ chunk_size' = in[2]
          /\ chunk_overlap' = in[3]
          /\ loc' = [pieces |-> Pieces(Paragraphs(in[1]), in[2]),
                     chunks |-> chunks, current_chunk |-> <<>>]
    /\ pc' = "loop"
    /\ UNCHANGED <<chunks, out, loopFrame>>

\* steps 1 and 2, and "chunks = []; current_chunk = ''"
ChunkCall ==
    /\ pc = "idle"
    /\ Len(out) < MaxRepeat
    /\ \E in \in RepeatInputs :
          /\ ~(in[1] = <<>> \/ Strip(in[1]) = <<>>)
          /\ text' = in[1]
          /\ chunk_size' = in[2]
          /\ chunk_overlap' = in[3]
          /\ loc' = [pieces |-> Pieces(Paragraphs(in[1]), in[2]),
                     chunks |-> <<>>, current_chunk |-> <<>>]
    /\ pc' = "loop"
    /\ UNCHANGED <<chunks, out, loopFrame>>

\* one iteration of "for piece in pieces"
ChunkPiece ==
    /\ pc = "loop"
    /\ loc.pieces # <<>>
    /\ LET st == MergeStep([chunks |-> loc.chunks,
                            current_chunk |-> loc.current_chunk],
                           Head(loc.pieces), chunk_size, chunk_overlap)
       IN  loc' = [pieces |-> Tail(loc.pieces), chunks |-> st.chunks,
                   current_chunk |-> st.current_chunk]
    /\ UNCHANGED <<pc, text, chunk_size, chunk_overlap, chunks, out, loopFrame>>

\* the loop is over: the last chunk is added and the list returned
ChunkReturn ==
    /\ pc = "loop"
    /\ loc.pieces = <<>>
    /\ UNCHANGED <<text, chunk_size, chunk_overlap, loopFrame>>
    /\ Returns(LastChunk([chunks |-> loc.chunks,
                          current_chunk |-> loc.current_chunk]))
    /\ loc' = NoLocals

NextLoop == ChunkCallBlank \/ ChunkCall \/ ChunkPiece \/ ChunkReturn

SpecLoop == InitLoop /\ [][NextLoop]_vars

\* a call runs on one thread with nothing to wait for: a step that can be
\* taken is taken
SpecLoopFair ==
    InitLoop /\ [][NextLoop]_vars /\ WF_vars(ChunkPiece) /\ WF_vars(ChunkReturn)

(***************************************************************************)
(* Document loading and process_document.                                  *)
(* A file is [stem, ext, pages]: its name is stem \o ext; pages holds the  *)
(* text of each page of a PDF, the text of each paragraph of a DOCX, and   *)
(* the whole text (one entry) of a plain text file.                        *)
(***************************************************************************)
DefaultChunkSize == 500
DefaultChunkOverlap == 50
IdPrefixLen == 100

Colon == <<":">>

Digit(d) == <<"0", "1", "2", "3", "4", "5", "6", "7", "8", "9">>[d + 1]

\* str(n) of a non-negative int, as an f-string formats it
RECURSIVE Str(_)
Str(n) == IF n < 10 THEN <<Digit(n)>> ELSE Str(n \div 10) \o <<Digit(n % 10)>>

\* str.lower() on the characters that occur in the model's file names
LowerChar(c) ==
    CASE c = "M" -> "m"
      [] c = "D" -> "d"
      [] OTHER -> c

Lower(s) == [i \in 1..Len(s) |-> LowerChar(s[i])]

ExtTxt == <<".", "t", "x", "t">>
ExtMd == <<".", "m", "d">>
ExtMarkdown == <<".", "m", "a", "r", "k", "d", "o", "w", "n">>
ExtPdf == <<".", "p", "d", "f">>
ExtDocx == <<".", "d", "o", "c", "x">>

IsBlank(t) == Strip(t) = <<>>

\* "\n\n".join(ps)
RECURSIVE JoinBlank(_)
JoinBlank(ps) ==
    IF ps = <<>> THEN <<>>
    ELSE IF Len(ps) = 1 THEN ps[1]
    ELSE ps[1] \o NL2 \o JoinBlank(Tail(ps))

\* load_pdf: one entry per page that has text, numbered from 1
RECURSIVE load_pdf(_, _)
load_pdf(pages, i) ==
    IF i > Len(pages) THEN <<>>
    ELSE (IF ~IsBlank(pages[i]) THEN <<[text |-> pages[i], page |-> i]>> ELSE <<>>)
             \o load_pdf(pages, i + 1)

\* load_docx: the non-blank paragraphs joined by blank lines
load_docx(paras) == JoinBlank(SelectSeq(paras, LAMBDA p : ~IsBlank(p)))

FileName(f) == f.stem \o f.ext

load_document(f) ==
    LET suffix == Lower(f.ext)
    IN  IF suffix = ExtPdf
        THEN LET pages == load_pdf(f.pages, 1)
             IN  [i \in 1..Len(pages) |->
                     [text |-> pages[i].text, source |-> FileName(f),
                      page |-> pages[i].page]]
        ELSE IF suffix = ExtDocx
        THEN <<[text |-> load_docx(f.pages), source |-> FileName(f), page |-> 0]>>
        ELSE IF suffix \in {ExtTxt, ExtMd, ExtMarkdown}
        THEN <<[text |-> f.pages[1], source |-> FileName(f), page |-> 0]>>
        ELSE <<>>

\* f"{source}:{page}:{chunk_counter}:{chunk_text_content[:100]}"
HashInput(source, page, counter, content) ==
    source \o Colon \o Str(page) \o Colon \o Str(counter) \o Colon
        \o Prefix(content, IdPrefixLen)

\* hashlib.md5(...).hexdigest()[:16], taken as collision-free on its input:
\* the digest of a string is represented by the string
Md5Hex16(s) == s

\* an id whose hash input leaves out the chunk counter
ChunkIdNoCounter(source, page, counter, content) ==
    Md5Hex16(source \o Colon \o Str(page) \o Colon
                 \o Prefix(content, IdPrefixLen))

\* an id that also hashes a counter kept across the calls of the pipeline
ChunkIdPerCall(source, page, counter, content) ==
    Md5Hex16(HashInput(source, page, counter, content) \o Colon \o Str(ncalls))

ChunkId(source, page, counter, content) ==
    Md5Hex16(HashInput(source, page, counter, content))

\* an inner loop whose counter starts again at 0 for every part
RECURSIVE PartChunksPerPage(_, _, _, _)
PartChunksPerPage(part, cks, j, counter) ==
    IF j > Len(cks) THEN <<>>
    ELSE <<[id |-> ChunkId(part.source, part.page, j - 1, cks[j]),
            content |-> cks[j],
            source |-> part.source,
            page |-> part.page,
            chunk_index |-> j - 1]>>
             \o PartChunksPerPage(part, cks, j + 1, counter + 1)

\* the inner loop of process_document over the chunks of one part
RECURSIVE PartChunks(_, _, _, _)
PartChunks(part, cks, j, counter) ==
    IF j > Len(cks) THEN <<>>
    ELSE <<[id |-> ChunkId(part.source, part.page, counter, cks[j]),
            content |-> cks[j],
            source |-> part.source,
            page |-> part.page,
            chunk_index |-> counter]>>
             \o PartChunks(part, cks, j + 1, counter + 1)

\* the outer loop of process_document over the parts
RECURSIVE AllChunks(_, _, _, _, _)
AllChunks(parts, i, counter, cs, co) ==
    IF i > Len(parts) THEN <<>>
    ELSE LET cks == chunk_text(parts[i].text, cs, co)
         IN  PartChunks(parts[i], cks, 1, counter)
                 \o AllChunks(parts, i + 1, counter + Len(cks), cs, co)

process_document(f, cs, co) ==
    LET doc_parts == load_document(f)
    IN  IF doc_parts = <<>> THEN <<>>
        ELSE AllChunks(doc_parts, 1, 0, cs, co)

(***************************************************************************)
(* Inputs of process_document.                                             *)
(***************************************************************************)
Pad == [i \in 1..IdPrefixLen |-> "a"]

DocTexts ==
    { <<>>,
      <<"a", "\n", "\n", "a">>,
      Pad \o <<"a">>,
      Pad \o <<".">> }

Stems == {<<"a">>, <<"b">>}

PageLists == UNION {[1..n -> DocTexts] : n \in 1..MaxPages}

Files ==
    [stem : Stems, ext : {ExtPdf, ExtDocx}, pages : PageLists]
        \cup [stem : Stems, ext : {ExtTxt, <<".", "M", "D">>},
              pages : [1..1 -> DocTexts]]
        \cup [stem : Stems, ext : {<<".", "c", "s", "v">>},
              pages : {<<<<"a">>>>}]

DocParams == {<<1, 0>>, <<DefaultChunkSize, DefaultChunkOverlap>>}

InitDoc ==
    /\ pc = "doc"
    /\ \E f1 \in Files, f2 \in Files : files = <<f1, f2>>
    /\ \E p \in DocParams : chunk_size = p[1] /\ chunk_overlap = p[2]
    /\ out = <<>>
    /\ text = <<>>
    /\ chunks = <<>>
    /\ PipelineUnused

\* one call of process_document, on the next file
ProcessDocument ==
    /\ pc = "doc"
    /\ Len(out) < Len(files)
    /\ out' = Append(out, process_document(files[Len(out) + 1],
                                           chunk_size, chunk_overlap))
    /\ pc' = IF Len(out') = Len(files) THEN "done" ELSE "doc"
    /\ UNCHANGED <<files, chunk_size, chunk_overlap, chunkVars, pipeVars>>

NextDoc == ProcessDocument

SpecDoc == InitDoc /\ [][NextDoc]_vars

(***************************************************************************)
(* process_directory.                                                      *)
(***************************************************************************)
\* the order of the characters that occur in the model's file names
CharOrder ==
    <<".", "0", ":", "D", "M", "a", "b", "c", "d", "f", "m", "p", "s", "t",
      "v", "x", "y">>

Ord(c) == CHOOSE i \in 1..Len(CharOrder) : CharOrder[i] = c

\* a < b as Python compares two strings
RECURSIVE StrLess(_, _)
StrLess(a, b) ==
    IF b = <<>> THEN FALSE
    ELSE IF a = <<>> THEN TRUE
    ELSE IF Head(a) # Head(b) THEN Ord(Head(a)) < Ord(Head(b))
    ELSE StrLess(Tail(a), Tail(b))

\* sorted(directory.iterdir())
RECURSIVE SortedFiles(_)
SortedFiles(fs) ==
    IF fs = {} THEN <<>>
    ELSE LET f == CHOOSE g \in fs :
                     \A h \in fs \ {g} : StrLess(FileName(g), FileName(h))
         IN  <<f>> \o SortedFiles(fs \ {f})

Supported == {ExtPdf, ExtTxt, ExtMd, ExtMarkdown, ExtDocx}

IsSupportedTxtOnly(f) == Lower(f.ext) = ExtTxt

IsSupported(f) == Lower(f.ext) \in Supported

RECURSIVE DirectoryChunks(_, _, _)
DirectoryChunks(fs, cs, co) ==
    IF fs = <<>> THEN <<>>
    ELSE (IF IsSupported(Head(fs)) THEN process_document(Head(fs), cs, co)
          ELSE <<>>) \o DirectoryChunks(Tail(fs), cs, co)

process_directory(entries, cs, co) ==
    DirectoryChunks(SortedFiles(entries), cs, co)

(***************************************************************************)
(* External collaborators and index_documents.                             *)
(***************************************************************************)
EmbedBatchSize == 16
UploadBatchSize == 1000
PipelineTopK == 5
SearchOnlyTopK == 10

\* the vector the Embedding Client returns for a text
Vec(t) == [vec_of |-> t]

SliceOneMore(xs, i, n) ==
    SubSeq(xs, i + 1, IF i + n + 1 < Len(xs) THEN i + n + 1 ELSE Len(xs))

\* xs[i:i + n] with i counted from 0
Slice(xs, i, n) ==
    SubSeq(xs, i + 1, IF i + n < Len(xs) THEN i + n ELSE Len(xs))

\* zip(chunks, embeddings) and the document built from each pair
Documents(cks, embs) ==
    [j \in 1..(IF Len(cks) < Len(embs) THEN Len(cks) ELSE Len(embs)) |->
        [id |-> cks[j].id,
         content |-> cks[j].content,
         source |-> cks[j].source,
         page |-> cks[j].page,
         chunk_index |-> cks[j].chunk_index,
         content_vector |-> embs[j]]]

\* the Index Store's upload of one document: insert, or replace by key "id"
Upsert(idx, d) == {e \in idx : e.id # d.id} \cup {d}

\* upload_documents: the documents of the batch that succeed are upserted in
\* the order of the batch, from position j on: of two with one id the later
\* stays
UpsertAll(idx, batch, j, succeeded) ==
    LET ok == {k \in succeeded : k >= j /\ k <= Len(batch)}
        ids == {batch[k].id : k \in ok}
        stays == {k \in ok : \A m \in ok : batch[m].id = batch[k].id => m <= k}
    IN  {e \in idx : e.id \notin ids} \cup {batch[k] : k \in stays}

\* search(): the result dict built from one hit
SearchResult(d) ==
    [id |-> d.id, content |-> d.content, source |-> d.source,
     page |-> d.page, score |-> 0]

\* the hit lists the Index Store may answer with: distinct documents of the
\* index, at most top
Hits(top) ==
    {h \in UNION {[1..n -> index] : n \in 0..MaxResults} :
        /\ Len(h) <= top
        /\ \A a \in 1..Len(h), b \in 1..Len(h) : a # b => h[a] # h[b]}

\* query(): "[Source: s, Page p]\ncontent" per hit, the page shown if truthy
QueryContext(results) ==
    [j \in 1..Len(results) |->
        [source |-> results[j].source,
         page |-> IF results[j].page # 0 THEN <<results[j].page>> ELSE <<>>,
         content |-> results[j].content]]

\* query_stream(): "[Source: s]\ncontent" per hit
StreamContext(results) ==
    [j \in 1..Len(results) |->
        [source |-> results[j].source, page |-> <<>>,
         content |-> results[j].content]]

NoInfoAnswerShort == "I couldn't find any relevant information."

NoInfoAnswer ==
    "I couldn't find any relevant information in the indexed documents."

NoInfoStream == "I couldn't find any relevant information."

\* the chunks a streamed completion may deliver
StreamChunks ==
    {[choices |-> TRUE, content |-> <<"tok1">>],
     [choices |-> TRUE, content |-> <<"tok2">>],
     [choices |-> TRUE, content |-> <<>>],
     [choices |-> FALSE, content |-> <<>>]}

(***************************************************************************)
(* The world the pipeline runs in.                                         *)
(***************************************************************************)
FileA == [stem |-> <<"a">>, ext |-> ExtTxt, pages |-> <<<<"a", "\n", "\n", "a">>>>]
FileB == [stem |-> <<"b">>, ext |-> ExtPdf, pages |-> <<<<" ">>, <<"a">>>>]
FileC == [stem |-> <<"c">>, ext |-> <<".", "c", "s", "v">>, pages |-> <<<<"a">>>>]
FileD == [stem |-> <<"D">>, ext |-> ExtMd, pages |-> <<<<" ">>>>]

Directory == {FileA, FileB, FileC, FileD}

Sources ==
    {[is_dir |-> TRUE, entries |-> Directory], [is_dir |-> TRUE, entries |-> {}]}
        \cup {[is_dir |-> FALSE, entries |-> {f}] : f \in Directory}

(***************************************************************************)
(* process_directory on the files of one directory.  A file name may hold  *)
(* any character but "/": FileXColon is a file named "x.txt:0:0:y.txt".    *)
(***************************************************************************)
FileX ==
    [stem |-> <<"x">>, ext |-> ExtTxt,
     pages |-> <<<<"y", ".", "t", "x", "t", ":", "0", ":", "0", ":", "a">>>>]

FileXColon ==
    [stem |-> <<"x", ".", "t", "x", "t", ":", "0", ":", "0", ":", "y">>,
     ext |-> ExtTxt, pages |-> <<<<"a">>>>]

FileP ==
    [stem |-> <<"p">>, ext |-> ExtPdf,
     pages |-> <<<<"a", "\n", "\n", "a">>, <<"a">>>>]

DirPool == {FileA, FileB, FileC, FileD, FileP, FileX, FileXColon}

DirParams == {<<1, 0>>, <<DefaultChunkSize, DefaultChunkOverlap>>}

InitDir ==
    /\ pc = "dir"
    /\ \E entries \in SUBSET DirPool :
          op = [NoOp EXCEPT !.name = "ingest",
                            !.source = [is_dir |-> TRUE, entries |-> entries]]
    /\ \E p \in DirParams : chunk_size = p[1] /\ chunk_overlap = p[2]
    /\ text = <<>>
    /\ chunks = <<>>
    /\ files = <<>>
    /\ out = <<>>
    /\ index = {}
    /\ index_exists = FALSE
    /\ blobs = {}
    /\ loc = NoLocals
    /\ outcome = NoOutcome
    /\ calls = <<>>
    /\ ncalls = 0
    /\ prev = <<>>
    /\ config = FullConfig
    /\ missing = <<>>

\* one call of process_directory: files holds the entries as they were
\* sorted, out the list returned
ProcessDirectory ==
    /\ pc = "dir"
    /\ files' = SortedFiles(op.source.entries)
    /\ out' = <<process_directory(op.source.entries, chunk_size, chunk_overlap)>>
    /\ pc' = "done"
    /\ UNCHANGED <<chunk_size, chunk_overlap, chunkVars, pipeVars>>

NextDir == ProcessDirectory

SpecDir == InitDir /\ [][NextDir]_vars

TopKArgs == {<<>>, <<0>>, <<1>>}

Questions == {"q"}

Answers == {"answer"}

InitPipe ==
    /\ pc = "new"
    /\ text = <<>>
    /\ chunks = <<>>
    /\ chunk_size = DefaultChunkSize
    /\ chunk_overlap = DefaultChunkOverlap
    /\ files = <<>>
    /\ out = <<>>
    /\ index = {}
    /\ index_exists \in BOOLEAN
    /\ blobs = {}
    /\ op = NoOp
    /\ loc = NoLocals
    /\ outcome = NoOutcome
    /\ calls = <<>>
    /\ ncalls = 0
    /\ prev = <<>>
    /\ config \in Configs
    /\ missing = <<>>

\* what no step of an operation changes
nonPipe == <<text, chunks, chunk_size, chunk_overlap, files, out, config, missing>>

\* RAGPipeline(): the missing settings are listed and printed, nothing more
Construct ==
    /\ pc = "new"
    /\ missing' = <<validate(config)>>
    /\ pc' = "idle"
    /\ UNCHANGED <<storeVars, op, loc, outcome, calls, ncalls, prev, config,
                   text, chunks, chunk_size, chunk_overlap, files, out>>

\* an operation of the pipeline is called
Call(o, at, locals) ==
    /\ pc = "idle"
    /\ ncalls < MaxCalls
    /\ ncalls' = ncalls + 1
    /\ op' = o
    /\ pc' = at
    /\ loc' = locals
    /\ calls' = <<>>
    /\ outcome' = NoOutcome
    /\ UNCHANGED <<storeVars, prev, nonPipe>>

\* the running operation ends
Finish(status, value) ==
    /\ pc' = "idle"
    /\ outcome' = [op |-> op.name, status |-> status, value |-> value]
    /\ loc' = NoLocals
    /\ UNCHANGED <<op, ncalls, nonPipe>>

\* an external call is made: the log keeps its arguments and its answer
LoggedCall(fn, ok, args, result) ==
    calls' = Append(calls, [fn |-> fn, ok |-> ok, args |-> args, result |-> result])

Logged(fn, ok) == LoggedCall(fn, ok, <<>>, <<>>)

\* an external call raises: nothing in the operation catches it
Raise(at, fn) ==
    /\ pc = at
    /\ Logged(fn, FALSE)
    /\ Finish("raised", fn)
    /\ UNCHANGED <<storeVars, prev>>

\* SearchIndexClient(...) / SearchClient(...) built from an empty endpoint or
\* key: the SDK may refuse at once, before the operation's first call
SearchClientFail ==
    /\ \/ pc \in {"create_index", "stats", "embed_query"}
       \/ pc = "embed" /\ loc.i = 0
    /\ ~SearchReady
    /\ Finish("raised", "client")
    /\ UNCHANGED <<storeVars, calls, prev>>

(***************************************************************************)
(* RAGPipeline.setup                                                       *)
(***************************************************************************)
SetupCall ==
    /\ pc = "idle"
    /\ Call([NoOp EXCEPT !.name = "setup"], "create_index", NoLocals)

CreateIndexRecreates ==
    /\ pc = "create_index"
    /\ SearchReady
    /\ Logged("create_or_update_index", TRUE)
    /\ index_exists' = TRUE
    /\ index' = {}
    /\ Finish("returned", <<>>)
    /\ UNCHANGED <<blobs, prev>>

CreateIndexOk ==
    /\ pc = "create_index"
    /\ SearchReady
    /\ Logged("create_or_update_index", TRUE)
    /\ index_exists' = TRUE
    /\ Finish("returned", <<>>)
    /\ UNCHANGED <<index, blobs, prev>>

CreateIndexFail ==
    /\ pc = "create_index"
    /\ Raise("create_index", "create_or_update_index")

(***************************************************************************)
(* RAGPipeline.ingest                                                      *)
(***************************************************************************)
\* the files upload_directory / upload_file will put into the Blob Store
ToUpload(src) ==
    IF src.is_dir THEN {f \in src.entries : IsSupported(f)} ELSE src.entries

IngestCall ==
    /\ pc = "idle"
    /\ \E src \in Sources, b \in BOOLEAN, p \in DocParams :
           Call([NoOp EXCEPT !.name = "ingest", !.source = src,
                             !.upload_to_blob = b, !.params = p],
                IF b /\ ToUpload(src) # {} THEN "blob" ELSE "process",
                [NoLocals EXCEPT !.todo = IF b THEN ToUpload(src) ELSE {}])

\* upload_file: the container is made if missing, the blob is overwritten
UploadFileOk ==
    /\ pc = "blob"
    /\ StorageReady
    /\ \E f \in loc.todo :
          /\ blobs' = blobs \cup {FileName(f)}
          /\ loc' = [loc EXCEPT !.todo = loc.todo \ {f}]
          /\ pc' = IF loc.todo = {f} THEN "process" ELSE "blob"
          /\ LoggedCall("upload_blob", TRUE, <<FileName(f)>>, <<>>)
    /\ UNCHANGED <<index, index_exists, op, outcome, ncalls, prev, nonPipe>>

UploadFileFail ==
    /\ pc = "blob"
    /\ Raise("blob", "upload_blob")

\* process_directory / process_document, and the "no chunks" return
IngestChunks ==
    IF op.source.is_dir
    THEN process_directory(op.source.entries, op.params[1], op.params[2])
    ELSE process_document(CHOOSE f \in op.source.entries : TRUE,
                          op.params[1], op.params[2])

ProcessNoChunksEmbeds ==
    /\ pc = "process"
    /\ IngestChunks = <<>>
    /\ Logged("embeddings.create", TRUE)
    /\ Finish("returned", 0)
    /\ UNCHANGED <<storeVars, prev>>

ProcessNoChunks ==
    /\ pc = "process"
    /\ IngestChunks = <<>>
    /\ Finish("returned", 0)
    /\ UNCHANGED <<storeVars, calls, prev>>

ProcessChunks ==
    /\ pc = "process"
    /\ IngestChunks # <<>>
    /\ loc' = [loc EXCEPT !.chunks = IngestChunks, !.i = 0]
    /\ pc' = "embed"
    /\ UNCHANGED <<storeVars, op, outcome, calls, ncalls, prev, nonPipe>>

\* get_embeddings_batch: one embeddings.create call per batch of 16 texts
EmbedBatchOk ==
    /\ pc = "embed"
    /\ OpenAIReady
    /\ LET batch == Slice([j \in 1..Len(loc.chunks) |-> loc.chunks[j].content],
                          loc.i, EmbedBatchSize)
           data == [j \in 1..Len(batch) |-> Vec(batch[j])]
           embs == loc.embeddings \o data
           last == loc.i + EmbedBatchSize >= Len(loc.chunks)
       IN  /\ LoggedCall("embeddings.create", TRUE, batch, data)
           /\ loc' = [loc EXCEPT !.embeddings = embs,
                                 !.i = IF last THEN 0 ELSE loc.i + EmbedBatchSize,
                                 !.documents =
                                     IF last THEN Documents(loc.chunks, embs)
                                     ELSE <<>>]
           /\ pc' = IF last THEN "upload" ELSE "embed"
    /\ UNCHANGED <<storeVars, op, outcome, ncalls, prev, nonPipe>>

\* the sequence s without its p-th element
Without(s, p) == SubSeq(s, 1, p - 1) \o SubSeq(s, p + 1, Len(s))

\* get_embeddings_batch takes response.data as it comes: here the response
\* holds one vector fewer than the batch had texts.  zip() then pairs the
\* chunks with the vectors that are there and stops at the shorter list; with
\* no document left the upload loop is not entered and 0 is returned.
EmbedBatchShort ==
    /\ pc = "embed"
    /\ OpenAIReady
    /\ LET batch == Slice([j \in 1..Len(loc.chunks) |-> loc.chunks[j].content],
                          loc.i, EmbedBatchSize)
           last == loc.i + EmbedBatchSize >= Len(loc.chunks)
       IN  \E p \in {1, Len(batch)} :
              LET data == Without([j \in 1..Len(batch) |-> Vec(batch[j])], p)
                  embs == loc.embeddings \o data
                  documents == Documents(loc.chunks, embs)
              IN  /\ LoggedCall("embeddings.create", TRUE, batch, data)
                  /\ IF last /\ documents = <<>>
                     THEN Finish("returned", 0)
                     ELSE /\ loc' = [loc EXCEPT
                                 !.embeddings = embs,
                                 !.i = IF last THEN 0 ELSE loc.i + EmbedBatchSize,
                                 !.documents = IF last THEN documents ELSE <<>>]
                          /\ pc' = IF last THEN "upload" ELSE "embed"
                          /\ UNCHANGED <<op, outcome, ncalls, nonPipe>>
    /\ UNCHANGED <<storeVars, prev>>

EmbedBatchFail ==
    /\ pc = "embed"
    /\ Raise("embed", "embeddings.create")

\* the answers upload_documents may give for a batch of n documents: the set
\* of positions it reports as succeeded
UploadResults(n) ==
    IF n <= MaxDistinctResults THEN SUBSET (1..n)
    ELSE {1..n, 2..n, 1..(n - 1), {}}

CountOneIfAny(result) == IF result = {} THEN 0 ELSE 1

\* sum(1 for r in result if r.succeeded)
CountSucceeded(result) == Cardinality(result)

SameAsPrev ==
    /\ prev # <<>>
    /\ prev[1].source = op.source
    /\ prev[1].params = op.params

\* index_documents: one upload_documents call per batch of 1000 documents;
\* the call reports which documents succeeded
UploadBatchOk ==
    /\ pc = "upload"
    /\ SearchReady
    /\ index_exists
    /\ LET batch == Slice(loc.documents, loc.i, UploadBatchSize)
           last == loc.i + UploadBatchSize >= Len(loc.documents)
       IN  \E succeeded \in UploadResults(Len(batch)) :
              LET total == loc.total_uploaded + CountSucceeded(succeeded)
                  idx == UpsertAll(index, batch, 1, succeeded)
              IN  /\ index' = idx
                  /\ LoggedCall("upload_documents", TRUE, batch, succeeded)
                  /\ IF last
                     THEN Finish("returned", total)
                     ELSE /\ loc' = [loc EXCEPT !.i = loc.i + UploadBatchSize,
                                                !.total_uploaded = total]
                          /\ UNCHANGED <<pc, op, outcome, ncalls, nonPipe>>
                  /\ prev' =
                       IF SameAsPrev THEN prev
                       ELSE IF last /\ total = Len(loc.chunks)
                       THEN <<[source |-> op.source, params |-> op.params,
                               index |-> idx, call |-> ncalls]>>
                       ELSE <<>>
    /\ UNCHANGED <<index_exists, blobs>>

\* an upload that, on raising, takes the earlier batches out again
UploadBatchFailRollsBack ==
    /\ pc = "upload"
    /\ Logged("upload_documents", FALSE)
    /\ Finish("raised", "upload_documents")
    /\ index' = {}
    /\ UNCHANGED <<index_exists, blobs, prev>>

UploadBatchFail ==
    /\ pc = "upload"
    /\ Raise("upload", "upload_documents")

(***************************************************************************)
(* search(), as called by query, query_stream and search_only              *)
(***************************************************************************)
\* k = top_k or self.top_k
TopK(arg) == IF arg # <<>> /\ arg[1] # 0 THEN arg[1] ELSE PipelineTopK

QueryCall ==
    /\ pc = "idle"
    /\ \E q \in Questions, k \in TopKArgs :
           Call([NoOp EXCEPT !.name = "query", !.question = q, !.top_k = k],
                "embed_query", [NoLocals EXCEPT !.k = TopK(k)])

QueryStreamCall ==
    /\ pc = "idle"
    /\ \E q \in Questions, k \in TopKArgs :
           Call([NoOp EXCEPT !.name = "query_stream", !.question = q, !.top_k = k],
                "embed_query", [NoLocals EXCEPT !.k = TopK(k)])

SearchOnlyCall ==
    /\ pc = "idle"
    /\ \E q \in Questions, k \in {<<SearchOnlyTopK>>, <<1>>} :
           Call([NoOp EXCEPT !.name = "search_only", !.question = q, !.top_k = k],
                "embed_query", [NoLocals EXCEPT !.k = k[1]])

\* get_embedding(query)
EmbedQueryOk ==
    /\ pc = "embed_query"
    /\ OpenAIReady
    /\ LoggedCall("embeddings.create", TRUE, op.question, Vec(op.question))
    /\ loc' = [loc EXCEPT !.query_embedding = Vec(op.question)]
    /\ pc' = "search"
    /\ UNCHANGED <<storeVars, op, outcome, ncalls, prev, nonPipe>>

EmbedQueryFail ==
    /\ pc = "embed_query"
    /\ Raise("embed_query", "embeddings.create")

\* search_client.search answers; the caller goes on with the results
SearchOk ==
    /\ pc = "search"
    /\ SearchReady
    /\ index_exists
    /\ \E hits \in Hits(loc.k) :
          LET results == [j \in 1..Len(hits) |-> SearchResult(hits[j])]
          IN  /\ LoggedCall("search", TRUE,
                            [search_text |-> op.question,
                             vector |-> loc.query_embedding, top |-> loc.k],
                            results)
              /\ CASE op.name = "search_only" ->
                      Finish("returned", results)
                [] op.name = "query" /\ results = <<>> ->
                      Finish("returned",
                             [question |-> op.question, answer |-> NoInfoAnswer,
                              sources |-> <<>>])
                [] op.name = "query" /\ results # <<>> ->
                      /\ loc' = [loc EXCEPT !.results = results,
                                            !.context = QueryContext(results)]
                      /\ pc' = "chat"
                      /\ UNCHANGED <<op, outcome, ncalls, nonPipe>>
                [] op.name = "query_stream" /\ results = <<>> ->
                      Finish("returned", <<NoInfoStream>>)
                [] op.name = "query_stream" /\ results # <<>> ->
                      /\ loc' = [loc EXCEPT !.results = results,
                                            !.context = StreamContext(results)]
                      /\ pc' = "stream_create"
                      /\ UNCHANGED <<op, outcome, ncalls, nonPipe>>
    /\ UNCHANGED <<storeVars, prev>>

SearchFail ==
    /\ pc = "search"
    /\ Raise("search", "search")

(***************************************************************************)
(* RAGPipeline.query and RAGPipeline.query_stream after the search         *)
(***************************************************************************)
ChatOkNoSources ==
    /\ pc = "chat"
    /\ OpenAIReady
    /\ \E a \in Answers :
          /\ LoggedCall("chat.completions.create", TRUE,
                        [question |-> op.question, context |-> loc.context], a)
          /\ Finish("returned",
                    [question |-> op.question, answer |-> a, sources |-> <<>>])
    /\ UNCHANGED <<storeVars, prev>>

ChatOk ==
    /\ pc = "chat"
    /\ OpenAIReady
    /\ \E a \in Answers :
          /\ LoggedCall("chat.completions.create", TRUE,
                        [question |-> op.question, context |-> loc.context], a)
          /\ Finish("returned",
                    [question |-> op.question, answer |-> a,
                     sources |-> loc.results])
    /\ UNCHANGED <<storeVars, prev>>

ChatFail ==
    /\ pc = "chat"
    /\ Raise("chat", "chat.completions.create")

StreamCreateOk ==
    /\ pc = "stream_create"
    /\ OpenAIReady
    /\ LoggedCall("chat.completions.create", TRUE,
                  [question |-> op.question, context |-> loc.context], <<>>)
    /\ pc' = "stream"
    /\ loc' = [loc EXCEPT !.results = <<>>, !.context = <<>>]
    /\ UNCHANGED <<storeVars, op, outcome, ncalls, prev, nonPipe>>

StreamCreateFail ==
    /\ pc = "stream_create"
    /\ Raise("stream_create", "chat.completions.create")

StreamChunkNewestFirst ==
    /\ pc = "stream"
    /\ Len(loc.arrived) < MaxStream
    /\ \E c \in StreamChunks :
          loc' = [loc EXCEPT
                     !.arrived = Append(loc.arrived, c),
                     !.yielded = IF c.choices /\ c.content # <<>>
                                 THEN <<c.content[1]>> \o loc.yielded
                                 ELSE loc.yielded]
    /\ UNCHANGED <<pc, storeVars, op, outcome, calls, ncalls, prev, nonPipe>>

\* one chunk of the stream arrives; its content, if any, is yielded
StreamChunk ==
    /\ pc = "stream"
    /\ Len(loc.arrived) < MaxStream
    /\ \E c \in StreamChunks :
          loc' = [loc EXCEPT
                     !.arrived = Append(loc.arrived, c),
                     !.yielded = IF c.choices /\ c.content # <<>>
                                 THEN Append(loc.yielded, c.content[1])
                                 ELSE loc.yielded]
    /\ UNCHANGED <<pc, storeVars, op, outcome, calls, ncalls, prev, nonPipe>>

\* the stream is exhausted
StreamEnd ==
    /\ pc = "stream"
    /\ Finish("returned", loc.yielded)
    /\ UNCHANGED <<storeVars, calls, prev>>

\* the stream breaks while it is read
StreamFail ==
    /\ pc = "stream"
    /\ Raise("stream", "chat.completions.stream")

\* the caller stops consuming and drops the generator
StreamAbandoned ==
    /\ pc = "stream"
    /\ loc.yielded # <<>>
    /\ Finish("abandoned", loc.yielded)
    /\ UNCHANGED <<storeVars, calls, prev>>

(***************************************************************************)
(* RAGPipeline.stats                                                       *)
(***************************************************************************)
StatsCall ==
    /\ pc = "idle"
    /\ Call([NoOp EXCEPT !.name = "stats"], "stats", NoLocals)

\* get_index_statistics answers
StatsOk ==
    /\ pc = "stats"
    /\ SearchReady
    /\ index_exists
    /\ Logged("get_index_statistics", TRUE)
    /\ Finish("returned", [document_count |-> Cardinality(index)])
    /\ UNCHANGED <<storeVars, prev>>

\* get_index_statistics raises: get_index_stats catches it and answers zeros
StatsFail ==
    /\ pc = "stats"
    /\ Logged("get_index_statistics", FALSE)
    /\ Finish("returned", [document_count |-> 0])
    /\ UNCHANGED <<storeVars, prev>>

NextPipe ==
    \/ Construct
    \/ SetupCall \/ CreateIndexOk \/ CreateIndexFail
    \/ IngestCall \/ UploadFileOk \/ UploadFileFail
    \/ ProcessNoChunks \/ ProcessChunks
    \/ EmbedBatchOk \/ EmbedBatchFail
    \/ UploadBatchOk \/ UploadBatchFail
    \/ QueryCall \/ QueryStreamCall \/ SearchOnlyCall
    \/ EmbedQueryOk \/ EmbedQueryFail
    \/ SearchOk \/ SearchFail
    \/ ChatOk \/ ChatFail
    \/ StreamCreateOk \/ StreamCreateFail
    \/ StreamChunk \/ StreamEnd \/ StreamFail \/ StreamAbandoned
    \/ StatsCall \/ StatsOk \/ StatsFail
    \/ SearchClientFail

SpecPipe == InitPipe /\ [][NextPipe]_vars

(***************************************************************************)
(* index_documents on the chunks of a large source: ingest has loaded and  *)
(* chunked it and is about to index n chunks.                              *)
(***************************************************************************)
BatchCounts ==
    {1, EmbedBatchSize, EmbedBatchSize + 1, 2 * EmbedBatchSize + 1}
        \cup {UploadBatchSize, MaxBatches * UploadBatchSize + 1}

LargeSource == [is_dir |-> FALSE, entries |-> {}]

\* n chunks of one text file, the j-th with its own id and content
ManyChunks(n) ==
    [j \in 1..n |->
        [id |-> j, content |-> j, source |-> "large.txt", page |-> 0,
         chunk_index |-> j - 1]]

InitBatch ==
    /\ pc = "embed"
    /\ text = <<>>
    /\ chunks = <<>>
    /\ chunk_size = DefaultChunkSize
    /\ chunk_overlap = DefaultChunkOverlap
    /\ files = <<>>
    /\ out = <<>>
    /\ index = {}
    /\ index_exists = TRUE
    /\ blobs = {}
    /\ op = [NoOp EXCEPT !.name = "ingest", !.source = LargeSource,
                         !.params = <<DefaultChunkSize, DefaultChunkOverlap>>]
    /\ \E n \in BatchCounts : loc = [NoLocals EXCEPT !.chunks = ManyChunks(n)]
    /\ outcome = NoOutcome
    /\ calls = <<>>
    /\ ncalls = 1
    /\ prev = <<>>
    /\ config = FullConfig
    /\ missing = <<validate(FullConfig)>>

NextBatch ==
    \/ EmbedBatchOk \/ EmbedBatchFail
    \/ UploadBatchOk \/ UploadBatchFail

SpecBatch == InitBatch /\ [][NextBatch]_vars

(***************************************************************************)
(* index_documents when an embedding response may hold fewer vectors than  *)
(* the batch had texts.                                                    *)
(***************************************************************************)
ShortCounts == {1, 2, EmbedBatchSize, EmbedBatchSize + 1, 2 * EmbedBatchSize + 1}

InitShort ==
    /\ pc = "embed"
    /\ text = <<>>
    /\ chunks = <<>>
    /\ chunk_size = DefaultChunkSize
    /\ chunk_overlap = DefaultChunkOverlap
    /\ files = <<>>
    /\ out = <<>>
    /\ index = {}
    /\ index_exists = TRUE
    /\ blobs = {}
    /\ op = [NoOp EXCEPT !.name = "ingest", !.source = LargeSource,
                         !.params = <<DefaultChunkSize, DefaultChunkOverlap>>]
    /\ \E n \in ShortCounts : loc = [NoLocals EXCEPT !.chunks = ManyChunks(n)]
    /\ outcome = NoOutcome
    /\ calls = <<>>
    /\ ncalls = 1
    /\ prev = <<>>
    /\ config = FullConfig
    /\ missing = <<validate(FullConfig)>>

NextShort ==
    \/ EmbedBatchOk \/ EmbedBatchShort \/ EmbedBatchFail
    \/ UploadBatchOk \/ UploadBatchFail

SpecShort == InitShort /\ [][NextShort]_vars

(***************************************************************************)
(* Vocabulary of the chunker's properties.                                 *)
(***************************************************************************)
Min(a, b) == IF a <= b THEN a ELSE b

Range(s) == {s[i] : i \in 1..Len(s)}

IsPrefix(p, s) == Len(p) <= Len(s) /\ SubSeq(s, 1, Len(p)) = p

RECURSIVE Flatten(_)
Flatten(ss) == IF ss = <<>> THEN <<>> ELSE Head(ss) \o Flatten(Tail(ss))

NonWs(s) == SelectSeq(s, LAMBDA c : ~IsSpace(c))

\* the pieces the merge loop of this call iterates over
ThePieces == Pieces(Paragraphs(text), chunk_size)

\* the overlap text chunk i+1 carries over from chunk i, as it is left after
\* the chunk has been stripped
OverlapText(i) ==
    LStrip(Suffix(chunks[i], Min(chunk_overlap, Len(chunks[i]))))

\* the overlap prefix of chunk i: overlap text and separator
OverlapPrefix(i) ==
    IF i = 1 \/ chunk_overlap = 0 THEN <<>> ELSE OverlapText(i - 1) \o NL2

\* chunk i without its overlap prefix
NewContent(i) ==
    SubSeq(chunks[i], Len(OverlapPrefix(i)) + 1, Len(chunks[i]))

Done == pc = "done"

\* C1: every returned chunk has length <= chunk_size, unless the chunk is one
\* single sentence that is itself longer than chunk_size (separator and
\* overlap prefix counted in the length).
C1_ChunkWithinSize ==
    (Done /\ chunk_size > 0) =>
        \A i \in 1..Len(chunks) :
            \/ Len(chunks[i]) <= chunk_size
            \/ (chunks[i] \in Range(ThePieces) /\ Len(chunks[i]) > chunk_size)

\* C2: "Para one.\n\nPara two.\n\nPara three." with chunk_size=100 and
\* chunk_overlap=0 gives exactly three chunks, one per paragraph, in order.
C2_ThreeParagraphsThreeChunks ==
    (Done /\ text = ExampleText /\ chunk_size = ExampleSize /\ chunk_overlap = 0) =>
        chunks = <<SubSeq(ExampleText, 1, 9),
                   SubSeq(ExampleText, 12, 20),
                   SubSeq(ExampleText, 23, 33)>>

\* C3 (as stated): with chunk_overlap = k > 0, chunk i+1 starts with the last
\* min(k, length of chunk i) characters of chunk i.
C3_OverlapIsRawSuffix ==
    (Done /\ chunk_overlap > 0) =>
        \A i \in 1..(Len(chunks) - 1) :
            IsPrefix(Suffix(chunks[i], Min(chunk_overlap, Len(chunks[i]))),
                     chunks[i + 1])

\* C3 (amended): with chunk_overlap = k > 0, chunk i+1 starts with the last
\* min(k, length of chunk i) characters of chunk i with their leading
\* whitespace removed, then a blank-line separator, and its own new content
\* (non-empty) comes after them.
C3_OverlapIsStrippedSuffix ==
    (Done /\ chunk_overlap > 0) =>
        \A i \in 1..(Len(chunks) - 1) :
            /\ OverlapText(i) # <<>>
            /\ IsPrefix(OverlapText(i) \o NL2, chunks[i + 1])
            /\ Len(chunks[i + 1]) > Len(OverlapText(i)) + 2

\* a call where the carried-over tail began with whitespace
C3_Witness ==
    /\ Done /\ chunk_overlap > 0 /\ Len(chunks) >= 2
    /\ OverlapText(1) # Suffix(chunks[1], Min(chunk_overlap, Len(chunks[1])))

\* C4: no content is lost: the chunks without their overlap prefixes hold,
\* in order, every piece whole and exactly once, and their concatenation has
\* exactly the non-whitespace characters of the input, in input order.
C4_NoContentLost ==
    (Done /\ chunk_size > 0) =>
        /\ Flatten([i \in 1..Len(chunks) |-> SplitBlank(NewContent(i))])
               = (IF Strip(text) = <<>> THEN <<>> ELSE ThePieces)
        /\ NonWs(Flatten([i \in 1..Len(chunks) |-> NewContent(i)])) = NonWs(text)

\* a call that returned several chunks with overlap, one of them merged from
\* two pieces, on a text with whitespace to drop
C4_Witness ==
    /\ Done /\ chunk_overlap > 0 /\ Len(chunks) >= 2
    /\ Len(ThePieces) > Len(chunks)
    /\ NonWs(text) # text

\* C5 (as stated): a sentence longer than chunk_size is, alone, one of the
\* returned chunks.
C5_OversizedSentenceIsAChunk ==
    Done =>
        \A p \in Range(ThePieces) :
            Len(p) > chunk_size => \E i \in 1..Len(chunks) : chunks[i] = p

\* C5 (amended): a sentence longer than chunk_size is, whole, the entire new
\* content of one chunk; that chunk is exactly the sentence when
\* chunk_overlap = 0 or the sentence is the first piece, and otherwise is
\* the overlap prefix followed by the sentence.
C5_OversizedSentenceIsNewContent ==
    (Done /\ Strip(text) # <<>>) =>
        \A j \in 1..Len(ThePieces) :
            Len(ThePieces[j]) > chunk_size =>
                \E i \in 1..Len(chunks) :
                    /\ NewContent(i) = ThePieces[j]
                    /\ chunks[i] = OverlapPrefix(i) \o ThePieces[j]
                    /\ (chunk_overlap = 0 \/ j = 1) => chunks[i] = ThePieces[j]

\* a call with overlap whose second piece is an oversized sentence
C5_Witness ==
    /\ Done /\ chunk_overlap > 0 /\ Strip(text) # <<>>
    /\ Len(ThePieces) >= 2
    /\ Len(ThePieces[2]) > chunk_size
    /\ chunks[2] # ThePieces[2]

\* C6: for a text with a non-whitespace character, the result is a
\* non-empty list of non-empty chunks without leading or trailing whitespace.
C6_ChunksNonEmptyAndTrimmed ==
    (Done /\ Strip(text) # <<>> /\ chunk_size > 0) =>
        /\ chunks # <<>>
        /\ \A i \in 1..Len(chunks) :
              /\ chunks[i] # <<>>
              /\ ~IsSpace(chunks[i][1])
              /\ ~IsSpace(chunks[i][Len(chunks[i])])

\* a call whose second buffer began with whitespace carried over as overlap
C6_Witness ==
    /\ Done /\ chunk_overlap > 0 /\ Len(chunks) >= 2
    /\ IsSpace(Suffix(chunks[1], chunk_overlap)[1])

\* C7: an empty or whitespace-only text gives the empty list.
C7_BlankGivesNoChunks ==
    (Done /\ \A i \in 1..Len(text) : IsSpace(text[i])) => chunks = <<>>

\* a call on a text of whitespace only
C7_Witness ==
    /\ Done /\ Len(text) >= 2 /\ chunks = <<>>
    /\ \A i \in 1..Len(text) : IsSpace(text[i])

(***************************************************************************)
(* Properties of the chunk ids.                                            *)
(***************************************************************************)
\* every chunk record returned by the calls made so far
OutRecords == UNION {Range(out[i]) : i \in 1..Len(out)}

B2N(b) == IF b THEN 1 ELSE 0

\* how many of source, page, ordinal and content differ between x and y
FieldsChanged(x, y) ==
    B2N(x.source # y.source) + B2N(x.page # y.page)
        + B2N(x.chunk_index # y.chunk_index) + B2N(x.content # y.content)

\* the same, with the content compared on its first IdPrefixLen characters
KeyFieldsChanged(x, y) ==
    B2N(x.source # y.source) + B2N(x.page # y.page)
        + B2N(x.chunk_index # y.chunk_index)
        + B2N(Prefix(x.content, IdPrefixLen) # Prefix(y.content, IdPrefixLen))

\* C8 (as stated): two chunks that differ in exactly one of source, page,
\* ordinal and content have different ids.
C8_AnyFieldChangesId ==
    Done =>
        \A x \in OutRecords, y \in OutRecords :
            FieldsChanged(x, y) = 1 => x.id # y.id

\* C8 (amended): two chunks that differ in exactly one of source, page,
\* ordinal and the first 100 characters of the content have different ids;
\* two chunks that agree on all four have the same id, also when their
\* contents differ after the first 100 characters.
C8_KeyFieldChangesId ==
    Done =>
        \A x \in OutRecords, y \in OutRecords :
            /\ KeyFieldsChanged(x, y) = 1 => x.id # y.id
            /\ KeyFieldsChanged(x, y) = 0 => x.id = y.id

\* two calls that returned chunks differing only after the 100th character
\* of the content, and a call that returned two chunks differing only in
\* the ordinal
C8_Witness ==
    /\ Done
    /\ \E x \in OutRecords, y \in OutRecords :
          x.content # y.content /\ KeyFieldsChanged(x, y) = 0
    /\ \E x \in OutRecords, y \in OutRecords :
          x.chunk_index # y.chunk_index /\ KeyFieldsChanged(x, y) = 1

(***************************************************************************)
(* Properties of the pipeline.                                             *)
(***************************************************************************)
Idle == pc = "idle"

\* C9: re-ingestion is idempotent: once an ingest has uploaded every chunk
\* of its source, an identical ingest (same source, same chunk parameters)
\* leaves the Index Store with the same set of records, at every step and
\* however its own uploads end; and the index never holds two records for
\* the same source, page, ordinal and content.
C9_ReingestIdempotent ==
    /\ prev # <<>> => index = prev[1].index
    /\ \A d \in index, e \in index :
          (/\ d.source = e.source /\ d.page = e.page
           /\ d.chunk_index = e.chunk_index /\ d.content = e.content) => d = e

\* a second, identical ingest has returned after uploading, with the first
\* one's records still the index
C9_Witness ==
    /\ Idle /\ op.name = "ingest" /\ outcome.status = "returned"
    /\ outcome.value > 0
    /\ SameAsPrev /\ prev[1].call < ncalls
    /\ Cardinality(index) >= 2

\* C10: if an external call failed during a pipeline operation, the
\* operation ends by raising to its caller.
C10_FailuresReachCaller ==
    (Idle /\ \E i \in 1..Len(calls) : ~calls[i].ok) => outcome.status = "raised"

(***************************************************************************)
(* Vocabulary of the pipeline's properties: the log of the last operation. *)
(***************************************************************************)
\* the calls of the log made to fn that were answered
Answered(fn) == SelectSeq(calls, LAMBDA c : c.fn = fn /\ c.ok)

CallsTo(fns) == {i \in 1..Len(calls) : calls[i].fn \in fns}

Returned == Idle /\ outcome.status = "returned"

\* the last operation's search was answered with no result
SearchFoundNothing ==
    \E i \in 1..Len(calls) :
        calls[i].fn = "search" /\ calls[i].ok /\ calls[i].result = <<>>

\* the settings that are unset, by the name of their environment variable
UnsetSettings ==
    (IF config.openai_endpoint = "" THEN {"AZURE_OPENAI_ENDPOINT"} ELSE {})
    \cup (IF config.openai_key = "" THEN {"AZURE_OPENAI_KEY"} ELSE {})
    \cup (IF config.search_endpoint = "" THEN {"AZURE_SEARCH_ENDPOINT"} ELSE {})
    \cup (IF config.search_key = "" THEN {"AZURE_SEARCH_KEY"} ELSE {})
    \cup (IF config.storage_connection_string = ""
          THEN {"AZURE_STORAGE_CONNECTION_STRING"} ELSE {})

(***************************************************************************)
(* C11: when the search of a query is answered with no result, query       *)
(* returns the fixed "couldn't find any relevant information" answer with  *)
(* empty sources, and that query makes no call to the Generation Client.   *)
(***************************************************************************)
C11_NoResultsNoGeneration ==
    (op.name = "query" /\ SearchFoundNothing) =>
        /\ CallsTo({"chat.completions.create"}) = {}
        /\ Returned
        /\ outcome.value.question = op.question
        /\ outcome.value.answer =
              "I couldn't find any relevant information in the indexed documents."
        /\ outcome.value.sources = <<>>

\* a query over an index that holds documents is answered with no result
C11_Witness ==
    /\ Returned /\ op.name = "query" /\ SearchFoundNothing
    /\ index # {}

(***************************************************************************)
(* C12: when loading and chunking the source gives no chunk (an empty      *)
(* directory, an unsupported file, files without text), ingest makes no    *)
(* call to the Embedding Client and none to the Index Store, and it        *)
(* returns 0; only an upload to the Blob Store, when asked for, can make   *)
(* it raise instead.                                                       *)
(***************************************************************************)
C12_NoChunksNoCalls ==
    (op.name = "ingest" /\ IngestChunks = <<>>) =>
        /\ CallsTo({"embeddings.create", "upload_documents"}) = {}
        /\ pc \in {"idle", "blob", "process"}
        /\ Idle => \/ outcome.status = "returned" /\ outcome.value = 0
                   \/ /\ outcome.status = "raised" /\ outcome.value = "upload_blob"
                      /\ op.upload_to_blob

\* the ingest of an empty directory has returned
C12_Witness ==
    /\ Returned /\ op.name = "ingest"
    /\ op.source.is_dir /\ op.source.entries = {}
    /\ outcome.value = 0

\* the ingest of one unsupported file, with the upload to the Blob Store asked
\* for, has returned
C12_WitnessBlob ==
    /\ Returned /\ op.name = "ingest" /\ op.upload_to_blob
    /\ ~op.source.is_dir /\ op.source.entries = {FileC}
    /\ calls # <<>>

(***************************************************************************)
(* C13 as stated: while a required setting is missing, no operation of the *)
(* pipeline issues a call to an external service.                          *)
(***************************************************************************)
C13_NoCallWhileMissing ==
    UnsetSettings # {} => calls = <<>>

(***************************************************************************)
(* C13 amended: the missing settings are detected when the pipeline is     *)
(* constructed, before any external call, and listed one by one: whenever  *)
(* an operation has issued a call, the list got at construction names      *)
(* exactly the settings that are unset.  The operations are not held back. *)
(***************************************************************************)
C13_MissingListedBeforeAnyCall ==
    calls # <<>> =>
        /\ missing # <<>>
        /\ Range(missing[1]) = UnsetSettings
        /\ Len(missing[1]) = Cardinality(UnsetSettings)

\* with only the Blob Store's setting unset, a query has been answered
C13_Witness ==
    /\ Returned /\ op.name = "query"
    /\ UnsetSettings = {"AZURE_STORAGE_CONNECTION_STRING"}
    /\ Len(calls) = 3 /\ \A i \in 1..3 : calls[i].ok

(***************************************************************************)
(* Vocabulary of the batching properties.                                  *)
(***************************************************************************)
Ceil(n, d) == (n + d - 1) \div d

RECURSIVE SumLen(_)
SumLen(ss) == IF ss = <<>> THEN 0 ELSE Len(Head(ss)) + SumLen(Tail(ss))

RECURSIVE SumCard(_)
SumCard(ss) == IF ss = <<>> THEN 0 ELSE Cardinality(Head(ss)) + SumCard(Tail(ss))

\* the batches handed to the answered calls to fn, in the order of the calls
Batches(fn) == [i \in 1..Len(Answered(fn)) |-> Answered(fn)[i].args]

\* the answers of upload_documents: per call, the positions reported succeeded
Reports == [i \in 1..Len(Answered("upload_documents")) |->
               Answered("upload_documents")[i].result]

\* the number of chunks the operation had to index: every text embedded
NumChunks == SumLen(Batches("embeddings.create"))

NoUploadRaised ==
    \A i \in 1..Len(calls) : calls[i].fn = "upload_documents" => calls[i].ok

(***************************************************************************)
(* C14: when no upload call raises, ingest returns the number of documents *)
(* the Index Store reported as succeeded, summed over all upload batches;  *)
(* a document reported as failed lowers the count and stops nothing: every *)
(* batch is still sent; the count lies between 0 and the number of chunks. *)
(***************************************************************************)
C14_ReturnsSucceededCount ==
    (Returned /\ op.name = "ingest" /\ Batches("upload_documents") # <<>>
        /\ NoUploadRaised) =>
        /\ outcome.value = SumCard(Reports)
        /\ Len(Reports) = Ceil(NumChunks, 1000)
        /\ SumLen(Batches("upload_documents")) = NumChunks
        /\ outcome.value >= 0
        /\ outcome.value <= NumChunks

\* two batches were uploaded; the first had a failed document, the last
\* none, and the count returned is one short of the number of chunks
C14_Witness ==
    /\ Returned /\ op.name = "ingest"
    /\ Len(Reports) = 2
    /\ Cardinality(Reports[1]) = Len(Batches("upload_documents")[1]) - 1
    /\ Cardinality(Reports[2]) = Len(Batches("upload_documents")[2])
    /\ outcome.value = NumChunks - 1

(***************************************************************************)
(* C18: embedding and upload run as sequential batches of fixed size: the  *)
(* texts go out 16 to a call and the documents 1000 to a call, each batch  *)
(* the next contiguous slice of the input, so that the batches sent so far *)
(* put end to end are a prefix of the input and, once the loop is over,    *)
(* the whole input in ceil(n/16) and ceil(n/1000) calls.                   *)
(***************************************************************************)
C18_SequentialFixedBatches ==
    /\ \A i \in 1..Len(Batches("embeddings.create")) :
           /\ Len(Batches("embeddings.create")[i]) \in 1..16
           /\ i < Len(Batches("embeddings.create"))
                 => Len(Batches("embeddings.create")[i]) = 16
    /\ \A i \in 1..Len(Batches("upload_documents")) :
           /\ Len(Batches("upload_documents")[i]) \in 1..1000
           /\ i < Len(Batches("upload_documents"))
                 => Len(Batches("upload_documents")[i]) = 1000
    /\ pc \in {"embed", "upload"} =>
           /\ IsPrefix(Flatten(Batches("embeddings.create")),
                       [j \in 1..Len(loc.chunks) |-> loc.chunks[j].content])
           /\ IsPrefix(Flatten(Batches("upload_documents")), loc.documents)
    /\ pc = "upload" =>
           /\ Len(Batches("embeddings.create")) = Ceil(Len(loc.chunks), 16)
           /\ NumChunks = Len(loc.chunks)
           /\ Len(loc.documents) = Len(loc.chunks)
    /\ (Returned /\ Batches("upload_documents") # <<>>) =>
           /\ Len(Batches("upload_documents")) = Ceil(NumChunks, 1000)
           /\ [j \in 1..NumChunks |-> Flatten(Batches("upload_documents"))[j].content]
                 = Flatten(Batches("embeddings.create"))

\* 1001 chunks have gone out in 63 embedding calls and 2 upload calls
C18_Witness ==
    /\ Returned
    /\ NumChunks = 1001
    /\ Len(Batches("embeddings.create")) = 63
    /\ Len(Batches("upload_documents")) = 2
    /\ Len(Batches("upload_documents")[2]) = 1

(***************************************************************************)
(* Vocabulary of the query properties.                                     *)
(***************************************************************************)
\* the label and text of one result as query() puts it into the context:
\* the page is shown when it is not 0
Labeled(r) ==
    [source |-> r.source,
     page |-> IF r.page = 0 THEN <<>> ELSE <<r.page>>,
     content |-> r.content]

\* the last operation's search was answered with at least one result
SearchFoundSome ==
    \E i \in 1..Len(calls) :
        calls[i].fn = "search" /\ calls[i].ok /\ calls[i].result # <<>>

SearchAnswer == Answered("search")[1].result

\* the content fragments among the chunks of a stream, in their order
RECURSIVE Fragments(_)
Fragments(cs) ==
    IF cs = <<>> THEN <<>>
    ELSE (IF Head(cs).choices /\ Head(cs).content # <<>>
          THEN Head(cs).content ELSE <<>>) \o Fragments(Tail(cs))

(***************************************************************************)
(* C15: a query that ends well after a search with at least one result has *)
(* made exactly three external calls, in this order: the embedding of the  *)
(* question; the hybrid search with the question as text, the vector that  *)
(* embedding gave and the query's k; one Generation Client call with the   *)
(* question and the context built from the results.  The result carries    *)
(* the question and, as sources, the search results in the search's order. *)
(***************************************************************************)
C15_QueryCallOrder ==
    (Returned /\ op.name = "query" /\ SearchFoundSome) =>
        /\ Len(calls) = 3
        /\ calls[1].fn = "embeddings.create" /\ calls[1].ok
        /\ calls[1].args = op.question
        /\ calls[2].fn = "search" /\ calls[2].ok
        /\ calls[2].args.search_text = op.question
        /\ calls[2].args.vector = calls[1].result
        /\ calls[2].args.top \in {1, 5}
        /\ op.top_k = <<1>> <=> calls[2].args.top = 1
        /\ calls[3].fn = "chat.completions.create" /\ calls[3].ok
        /\ calls[3].args.question = op.question
        /\ calls[3].args.context =
              [j \in 1..Len(calls[2].result) |-> Labeled(calls[2].result[j])]
        /\ outcome.value.question = op.question
        /\ outcome.value.answer = calls[3].result
        /\ outcome.value.sources = calls[2].result

\* a query has been answered from two results of different sources
C15_Witness ==
    /\ Returned /\ op.name = "query" /\ SearchFoundSome
    /\ Len(outcome.value.sources) = 2
    /\ outcome.value.sources[1].source # outcome.value.sources[2].source

(***************************************************************************)
(* C16: query_stream hands the Generation Client the context query would   *)
(* hand it for the same results, and on an empty search it yields the      *)
(* fixed answer text that query returns.                                   *)
(***************************************************************************)
C16_StreamSameAsQuery ==
    op.name = "query_stream" =>
        /\ \A i \in 1..Len(calls) :
              (calls[i].fn = "chat.completions.create" /\ calls[i].ok) =>
                  calls[i].args.context =
                      [j \in 1..Len(SearchAnswer) |-> Labeled(SearchAnswer[j])]
        /\ (Returned /\ SearchFoundNothing) =>
              outcome.value =
                <<"I couldn't find any relevant information in the indexed documents.">>

(***************************************************************************)
(* C17: while a stream is read, what has been yielded is the non-empty     *)
(* content fragments that have arrived, each once, in their order of       *)
(* arrival; and the step in which the caller stops consuming changes       *)
(* neither the Index Store nor the Blob Store nor the configuration and    *)
(* leaves the pipeline as it is between any two operations.                *)
(***************************************************************************)
C17_StreamInArrivalOrder ==
    /\ [](pc = "stream" => loc.yielded = Fragments(loc.arrived))
    /\ [][(pc = "stream" /\ pc' = "idle" /\ outcome'.status # "raised") =>
             /\ outcome'.value = Fragments(loc.arrived)
             /\ UNCHANGED <<storeVars, config, missing, op, prev>>
             /\ loc' = NoLocals]_vars

\* the caller stopped after two fragments had arrived and been yielded
C17_Witness ==
    /\ Idle /\ op.name = "query_stream" /\ outcome.status = "abandoned"
    /\ outcome.value = <<"tok2", "tok1">>

(***************************************************************************)
(* Vocabulary of the directory properties.                                 *)
(***************************************************************************)
\* the extensions load_document reads, lower case
Readable == {ExtPdf, ExtTxt, ExtMd, ExtMarkdown, ExtDocx}

\* the chunks of every readable file of the ingested directory
ReadableChunks ==
    UNION {Range(process_document(f, op.params[1], op.params[2])) :
              f \in {g \in op.source.entries : Lower(g.ext) \in Readable}}

(***************************************************************************)
(* C19: the ingest of one file with an unsupported extension returns 0     *)
(* and raises nothing; the ingest of a directory that holds unsupported    *)
(* files and files without text goes on past them: the chunks it indexes   *)
(* are the chunks of every supported file of the directory, and it stops   *)
(* short of indexing only if no supported file has a chunk.                *)
(***************************************************************************)
C19_UnsupportedSkipped ==
    op.name = "ingest" =>
        /\ (Idle /\ ~op.source.is_dir /\ ~op.upload_to_blob
               /\ \A f \in op.source.entries : Lower(f.ext) \notin Readable) =>
              (Returned /\ outcome.value = 0 /\ calls = <<>>)
        /\ (op.source.is_dir /\ pc \in {"embed", "upload"}) =>
              /\ Range(loc.chunks) = ReadableChunks
              /\ Len(loc.chunks) = Cardinality(ReadableChunks)
        /\ (op.source.is_dir /\ Returned
               /\ CallsTo({"embeddings.create"}) = {}) =>
              ReadableChunks = {}

\* the directory with a file without text, two files with text and an
\* unsupported file is being indexed: three chunks
C19_Witness ==
    /\ op.name = "ingest" /\ pc = "embed"
    /\ op.source.is_dir /\ op.source.entries = {FileA, FileB, FileC, FileD}
    /\ Len(loc.chunks) = 3
    /\ {loc.chunks[j].source : j \in 1..3} = {FileName(FileA), FileName(FileB)}

(***************************************************************************)
(* C20: setup never deletes the index and never removes or changes a       *)
(* stored document: no step of setup changes the documents of the index or *)
(* the blobs, an index that exists still exists afterwards, and a setup    *)
(* over an existing index leaves the stores exactly as they were.          *)
(***************************************************************************)
C20_SetupKeepsDocuments ==
    [][pc = "create_index" =>
          /\ index' = index
          /\ blobs' = blobs
          /\ index_exists => index_exists'
          /\ outcome'.status = "returned" => index_exists']_vars

\* setup has returned as the second operation, over an index that holds
\* documents
C20_Witness ==
    /\ Returned /\ op.name = "setup"
    /\ index # {}
    /\ ncalls = 2

\* the call recorded in c was made with the arguments of the call in d
SameArguments(c, d) ==
    /\ c.text = d.text
    /\ c.chunk_size = d.chunk_size
    /\ c.chunk_overlap = d.chunk_overlap

\* C21: chunk_text is deterministic and keeps nothing between calls: two
\* calls with the same text, chunk_size and chunk_overlap return the same
\* list, whatever calls were made between them, and the list is the one a
\* single call on these arguments computes.
C21_SameArgumentsSameChunks ==
    \A i \in 1..Len(out) : \A j \in 1..Len(out) :
        SameArguments(out[i], out[j]) =>
            /\ out[i].result = out[j].result
            /\ out[i].result =
                   chunk_text(out[i].text, out[i].chunk_size, out[i].chunk_overlap)

C21_Witness ==
    /\ pc = "idle"
    /\ Len(out) = MaxRepeat
    /\ SameArguments(out[1], out[MaxRepeat])
    /\ ~SameArguments(out[1], out[2])
    /\ Len(out[1].result) >= 2
    /\ Len(out[2].result) >= 1

\* the documents the answered upload calls reported as succeeded
Stored ==
    UNION {{Batches("upload_documents")[i][k] : k \in Reports[i]} :
               i \in 1..Len(Reports)}

\* the last operation's log holds a call to fn that raised
RaisedIn(fn) == \E i \in 1..Len(calls) : calls[i].fn = fn /\ ~calls[i].ok

(***************************************************************************)
(* C22: in ingest every embedding call comes before the first upload; if   *)
(* an embedding call raises, nothing is uploaded; if an upload call        *)
(* raises, the error ends the operation at once: the documents of the      *)
(* batches before it stay in the index, the batch is not sent again and no *)
(* later batch is sent.                                                    *)
(***************************************************************************)
C22_EmbedThenUploadNoRollback ==
    /\ \A i \in 1..Len(calls) : \A j \in 1..Len(calls) :
           (calls[i].fn = "embeddings.create" /\ calls[j].fn = "upload_documents")
               => i < j /\ calls[i].ok
    /\ \A i \in 1..Len(calls) :
           ~calls[i].ok =>
               /\ i = Len(calls)
               /\ Idle
               /\ outcome = [op |-> "ingest", status |-> "raised",
                             value |-> calls[i].fn]
    /\ RaisedIn("embeddings.create") =>
           /\ CallsTo({"upload_documents"}) = {}
           /\ index = {}
    /\ RaisedIn("upload_documents") =>
           /\ Cardinality(CallsTo({"upload_documents"}))
                  = Len(Batches("upload_documents")) + 1
           /\ Len(Batches("upload_documents")) < Ceil(NumChunks, 1000)
           /\ index = Stored

\* the second upload batch raised after the first had stored documents
C22_Witness ==
    /\ Idle /\ outcome.status = "raised"
    /\ RaisedIn("upload_documents")
    /\ Len(Batches("upload_documents")) = 1
    /\ Cardinality(Reports[1]) = 1000
    /\ Cardinality(index) = 1000

\* an embedding batch raised after earlier batches had been answered
C22_WitnessEmbed ==
    /\ Idle /\ outcome.status = "raised"
    /\ RaisedIn("embeddings.create")
    /\ Len(Batches("embeddings.create")) >= 1

\* the new content of the returned chunks, cut at the blank-line separators:
\* the parts of the input as they appear in the output, in order
OutputParts == Flatten([i \in 1..Len(chunks) |-> SplitBlank(NewContent(i))])

\* s occurs in t as a contiguous run of characters
IsSubstring(s, t) ==
    \E k \in 0..(Len(t) - Len(s)) : SubSeq(t, k + 1, k + Len(s)) = s

\* the parts put end to end are the paragraph p, cut only where p has a
\* sentence end ('.', '!' or '?') followed by whitespace, the whitespace gone
RECURSIVE CutAtSentenceEnds(_, _)
CutAtSentenceEnds(p, parts) ==
    IF Len(parts) = 1 THEN parts[1] = p
    ELSE LET s == Head(parts)
         IN  /\ s # <<>>
             /\ Len(s) < Len(p)
             /\ SubSeq(p, 1, Len(s)) = s
             /\ IsTerminal(s[Len(s)])
             /\ IsSpace(p[Len(s) + 1])
             /\ CutAtSentenceEnds(LStrip(SubSeq(p, Len(s) + 1, Len(p))),
                                  Tail(parts))

\* the output parts are the paragraphs in order: a paragraph of at most cs
\* characters is exactly one part, a longer one is cut at sentence ends
RECURSIVE KeptOrCut(_, _, _)
KeptOrCut(paras, parts, cs) ==
    IF paras = <<>> THEN parts = <<>>
    ELSE LET p == Head(paras)
         IN  IF Len(p) <= cs
             THEN /\ parts # <<>>
                  /\ Head(parts) = p
                  /\ KeptOrCut(Tail(paras), Tail(parts), cs)
             ELSE \E n \in 1..Len(parts) :
                     /\ CutAtSentenceEnds(p, SubSeq(parts, 1, n))
                     /\ KeptOrCut(Tail(paras), SubSeq(parts, n + 1, Len(parts)), cs)

(***************************************************************************)
(* C23: a paragraph of at most chunk_size characters is never split: it is *)
(* one part of the output and stands whole and contiguous inside a single  *)
(* chunk; only longer paragraphs are cut, and only right after a '.', '!'  *)
(* or '?' that is followed by whitespace.                                  *)
(***************************************************************************)
C23_ShortParagraphsKeptWhole ==
    Done =>
        /\ KeptOrCut(Paragraphs(text), OutputParts, chunk_size)
        /\ \A j \in 1..Len(Paragraphs(text)) :
               Len(Paragraphs(text)[j]) <= chunk_size =>
                   \E i \in 1..Len(chunks) :
                       IsSubstring(Paragraphs(text)[j], chunks[i])

\* a paragraph with a sentence end inside it that fits chunk_size and is
\* returned whole, next to a longer paragraph that was cut
C23_Witness ==
    /\ Done /\ chunk_overlap > 0
    /\ \E j \in 1..Len(Paragraphs(text)) :
           /\ Len(Paragraphs(text)[j]) <= chunk_size
           /\ Len(SplitSentences(Paragraphs(text)[j])) = 2
           /\ Paragraphs(text)[j] \in Range(chunks)

\* a paragraph longer than chunk_size was cut into two sentences
C23_WitnessCut ==
    /\ Done
    /\ Len(Paragraphs(text)) = 1
    /\ Len(Paragraphs(text)[1]) > chunk_size
    /\ Len(OutputParts) = 2

\* how often x occurs in the sequence s
Count(x, s) == Cardinality({k \in 1..Len(s) : s[k] = x})

\* the visible characters of the new content of chunks 1..i, in chunk order
NewUpTo(i) == NonWs(Flatten([k \in 1..i |-> NewContent(k)]))

\* the paragraph p goes through the chunker in one piece
GoesWhole(p) == Len(p) <= chunk_size \/ SplitSentences(p) = <<p>>

(***************************************************************************)
(* C24: chunk_text keeps the order of the input and drops no duplicate:    *)
(* the new content of chunk i lies in the input before the new content of  *)
(* chunk i+1 (the new content of the first i chunks is, whitespace aside,  *)
(* a beginning of the input, and each chunk adds to it), and a paragraph   *)
(* that occurs several times in the input occurs as often in the output.   *)
(***************************************************************************)
C24_InputOrderDuplicatesKept ==
    Done =>
        /\ \A i \in 1..Len(chunks) :
               /\ IsPrefix(NewUpTo(i), NonWs(text))
               /\ Len(NewUpTo(i)) > Len(NewUpTo(i - 1))
        /\ \A p \in Range(Paragraphs(text)) :
               GoesWhole(p) =>
                   Count(p, OutputParts) >= Count(p, Paragraphs(text))
        /\ Len(OutputParts) >= Len(Paragraphs(text))

\* the same paragraph twice in the input, returned in two chunks
C24_Witness ==
    /\ Done
    /\ Len(chunks) >= 2
    /\ \E p \in Range(Paragraphs(text)) :
           /\ Count(p, Paragraphs(text)) = 2
           /\ Count(p, OutputParts) = 2
           /\ NewContent(1) = p
           /\ NewContent(2) = p

\* the chunks the running call has so far: those closed and the open buffer
ChunksSoFar == Len(loc.chunks) + (IF loc.current_chunk # <<>> THEN 1 ELSE 0)

(***************************************************************************)
(* C25: chunk_text terminates for every input, also when chunk_overlap >=  *)
(* chunk_size: every call that entered the merge loop returns, each        *)
(* iteration uses up one piece, the chunks made so far plus the pieces     *)
(* still to come never exceed the number of pieces, so the returned list   *)
(* has at most as many chunks as there are pieces, and every returned      *)
(* chunk has new content of its own after its overlap prefix.              *)
(***************************************************************************)
C25_TerminatesWithinPieces ==
    /\ (pc = "loop") ~> (pc = "idle")
    /\ [][(pc = "loop" /\ pc' = "loop")
              => Len(loc'.pieces) = Len(loc.pieces) - 1]_vars
    /\ [](pc = "loop" => ChunksSoFar + Len(loc.pieces) <= Len(ThePieces))
    /\ []((pc = "idle" /\ out # <<>>) =>
             /\ chunks = out[Len(out)].result
             /\ Strip(text) # <<>> => Len(chunks) \in 1..Len(ThePieces)
             /\ \A i \in 1..Len(chunks) : NonWs(NewContent(i)) # <<>>)

\* a call with chunk_overlap >= chunk_size has returned one chunk per piece,
\* each after the first with an overlap prefix
C25_Witness ==
    /\ pc = "idle" /\ out # <<>>
    /\ chunk_overlap >= chunk_size
    /\ Len(chunks) = 3
    /\ Len(ThePieces) = 3
    /\ OverlapPrefix(3) # <<>>

\* the chunks of the parts of file f, part after part, each with the source
\* and the page of the part it was cut from
ChunksOfParts(f) ==
    LET parts == load_document(f)
    IN  Flatten([p \in 1..Len(parts) |->
            LET cks == chunk_text(parts[p].text, chunk_size, chunk_overlap)
            IN  [k \in 1..Len(cks) |->
                    [content |-> cks[k], source |-> FileName(f),
                     page |-> parts[p].page]]])

(***************************************************************************)
(* C26: the chunk_index of a chunk is its ordinal in the list that         *)
(* process_document returns: the j-th chunk, counted from 0, has           *)
(* chunk_index j; the numbering runs on across the pages of a document     *)
(* without restart or gap, and each chunk carries the source and the page  *)
(* of the part it was cut from.                                            *)
(***************************************************************************)
C26_ChunkIndexIsOrdinal ==
    \A i \in 1..Len(out) :
        /\ \A j \in 1..Len(out[i]) : out[i][j].chunk_index = j - 1
        /\ [j \in 1..Len(out[i]) |->
                [content |-> out[i][j].content, source |-> out[i][j].source,
                 page |-> out[i][j].page]]
               = ChunksOfParts(files[i])

\* a PDF with chunks on two pages: the first chunk of page 2 continues the
\* numbering of page 1
C26_Witness ==
    /\ out # <<>>
    /\ Len(out[1]) >= 3
    /\ out[1][2].page = 1
    /\ out[1][3].page = 2
    /\ out[1][3].chunk_index = 2

\* a PDF whose first page is blank: its first chunk is number 0 on page 2
C26_WitnessBlankPage ==
    /\ out # <<>>
    /\ Len(out[1]) >= 1
    /\ out[1][1].page = 2
    /\ out[1][1].chunk_index = 0

(***************************************************************************)
(* C27: a top_k passed to query or query_stream overrides the pipeline's   *)
(* default: for every value other than None the search is issued with      *)
(* exactly that top_k, and the default is used only when none is passed.   *)
(***************************************************************************)
C27_TopKOverrides ==
    op.name \in {"query", "query_stream"} =>
        \A i \in 1..Len(calls) :
            (calls[i].fn = "search" /\ calls[i].ok) =>
                calls[i].args.top =
                    (IF op.top_k = <<>> THEN PipelineTopK ELSE op.top_k[1])

\* the five required settings, in the order validate looks at them
RequiredSettings ==
    <<"AZURE_OPENAI_ENDPOINT", "AZURE_OPENAI_KEY", "AZURE_SEARCH_ENDPOINT",
      "AZURE_SEARCH_KEY", "AZURE_STORAGE_CONNECTION_STRING">>

AllFiveSet ==
    /\ config.openai_endpoint # ""
    /\ config.openai_key # ""
    /\ config.search_endpoint # ""
    /\ config.search_key # ""
    /\ config.storage_connection_string # ""

(***************************************************************************)
(* C28: AppConfig.validate returns exactly the names of the required       *)
(* settings that are empty, among the five it looks at, each name once     *)
(* and in the order of the five; the list is empty if and only if all      *)
(* five are set.                                                           *)
(***************************************************************************)
C28_ValidateListsEmptySettings ==
    missing # <<>> =>
        /\ missing[1] = SelectSeq(RequiredSettings, LAMBDA n : n \in UnsetSettings)
        /\ \A i \in 1..Len(missing[1]) : \A j \in 1..Len(missing[1]) :
               missing[1][i] = missing[1][j] => i = j
        /\ (missing[1] = <<>>) <=> AllFiveSet

\* validate has returned two names: one key of each of two services
C28_Witness ==
    /\ missing = <<<<"AZURE_OPENAI_KEY", "AZURE_STORAGE_CONNECTION_STRING">>>>
    /\ config.openai_key = ""
    /\ config.openai_endpoint # ""
    /\ config.storage_connection_string = ""

\* validate has returned the empty list
C28_WitnessNoneMissing == missing = <<<<>>>> /\ AllFiveSet

(***************************************************************************)
(* C29: within one directory ingest all chunks get pairwise distinct ids,  *)
(* the hash taken as collision-free on its input string: no two chunks of  *)
(* the list process_directory returns, from the same file or from          *)
(* different files, have the same hash input.                              *)
(***************************************************************************)
C29_DirectoryIdsDistinct ==
    (Done /\ out # <<>>) =>
        \A i \in 1..Len(out[1]) : \A j \in 1..Len(out[1]) :
            i # j => out[1][i].id # out[1][j].id

\* the documents handed to the answered upload calls, in order
Uploaded == Flatten(Batches("upload_documents"))

(***************************************************************************)
(* C30: every document that index_documents uploads carries the vector     *)
(* the Embedding Client returned for that document's own content, the i-th *)
(* chunk going with the embedding of the i-th text across all embedding    *)
(* batches, and every chunk passed in is uploaded, whatever the number of  *)
(* chunks and of vectors in each embedding response.                       *)
(***************************************************************************)
C30_OwnVectorEveryChunk ==
    /\ \A j \in 1..Len(Uploaded) :
           Uploaded[j].content_vector = Vec(Uploaded[j].content)
    /\ pc = "upload" =>
           /\ Len(loc.documents) = Len(loc.chunks)
           /\ \A j \in 1..Len(loc.documents) :
                  /\ loc.documents[j].id = loc.chunks[j].id
                  /\ loc.documents[j].content_vector = loc.embeddings[j]
                  /\ loc.embeddings[j] = Vec(loc.chunks[j].content)
    /\ (Returned /\ op.name = "ingest") => Len(Uploaded) = NumChunks

====
